---- MODULE Spec2Model ----
(***************************************************************************)
(* Model of src/heat_pump.py: the function calculate_realistic_cop and the *)
(* script that calls it (main call, temperature sweep, seasonal calls).    *)
(*                                                                         *)
(* Numbers.  Python evaluates the function in binary floating point.  The  *)
(* model evaluates the same expressions, in the same order, in exact       *)
(* rational arithmetic: a number is a record [sgn, num, den] with sgn in   *)
(* {-1, 0, 1} and num, den natural numbers of arbitrary size, written as   *)
(* sequences of limbs (least significant first).  Decimal literals of the  *)
(* source (273.15, 0.88, 0.150, ...) are their decimal values.  Division   *)
(* by zero is Python's ZeroDivisionError: the call raises and returns no   *)
(* record.                                                                 *)
(***************************************************************************)
EXTENDS Integers, Sequences, FiniteSets, TLC

(***************************************************************************)
(* Natural numbers of arbitrary size.                                      *)
(***************************************************************************)
Base == 10 ^ 4

RECURSIVE NatOf(_)
NatOf(n) == IF n = 0 THEN << >> ELSE <<n % Base>> \o NatOf(n \div Base)

RECURSIVE Strip(_)
Strip(x) ==
    IF x = << >> THEN x
    ELSE IF x[Len(x)] = 0 THEN Strip(SubSeq(x, 1, Len(x) - 1)) ELSE x

RECURSIVE AddC(_, _, _)
AddC(x, y, c) ==
    IF y = << >> /\ c = 0 THEN x
    ELSE IF x = << >> /\ c = 0 THEN y
    ELSE LET a == IF x = << >> THEN 0 ELSE Head(x)
             b == IF y = << >> THEN 0 ELSE Head(y)
             s == a + b + c
         IN  <<s % Base>> \o AddC(IF x = << >> THEN x ELSE Tail(x),
                                  IF y = << >> THEN y ELSE Tail(y),
                                  s \div Base)

NatAdd(x, y) == AddC(x, y, 0)

RECURSIVE SubB(_, _, _)
SubB(x, y, b) ==
    IF y = << >> /\ b = 0 THEN x
    ELSE LET s == Head(x) - (IF y = << >> THEN 0 ELSE Head(y)) - b
         IN  <<IF s < 0 THEN s + Base ELSE s>>
                 \o SubB(Tail(x), IF y = << >> THEN y ELSE Tail(y),
                         IF s < 0 THEN 1 ELSE 0)

\* x - y for x >= y
NatSub(x, y) == Strip(SubB(x, y, 0))

RECURSIVE CmpFrom(_, _, _)
CmpFrom(x, y, i) ==
    IF i = 0 THEN 0
    ELSE IF x[i] < y[i] THEN -1
    ELSE IF x[i] > y[i] THEN 1
    ELSE CmpFrom(x, y, i - 1)

\* -1, 0, 1 as x < y, x = y, x > y
NatCmp(x, y) ==
    IF Len(x) < Len(y) THEN -1
    ELSE IF Len(x) > Len(y) THEN 1
    ELSE CmpFrom(x, y, Len(x))

RECURSIVE MulLimb(_, _, _)
MulLimb(x, d, c) ==
    IF x = << >> THEN (IF c = 0 THEN << >> ELSE <<c>>)
    ELSE LET p == Head(x) * d + c
         IN  <<p % Base>> \o MulLimb(Tail(x), d, p \div Base)

RECURSIVE NatMul(_, _)
NatMul(x, y) ==
    IF x = << >> \/ y = << >> THEN << >>
    ELSE LET hi == NatMul(x, Tail(y))
             lo == IF Head(y) = 0 THEN << >> ELSE MulLimb(x, Head(y), 0)
         IN  NatAdd(lo, IF hi = << >> THEN hi ELSE <<0>> \o hi)

(***************************************************************************)
(* Rational numbers: the values of the program's floats.                   *)
(***************************************************************************)
RECURSIVE Lower(_, _)
\* a fraction with the common factors Base of num and den removed
Lower(n, d) ==
    IF n # << >> /\ Head(n) = 0 /\ Head(d) = 0 THEN Lower(Tail(n), Tail(d))
    ELSE <<n, d>>

Mk(s, n, d) ==
    IF n = << >> \/ s = 0 THEN [sgn |-> 0, num |-> << >>, den |-> <<1>>]
    ELSE LET l == Lower(n, d) IN [sgn |-> s, num |-> l[1], den |-> l[2]]

\* the number n / d, for integers n and d > 0
Q(n, d) ==
    Mk(IF n < 0 THEN -1 ELSE IF n = 0 THEN 0 ELSE 1,
       NatOf(IF n < 0 THEN -n ELSE n), NatOf(d))

Z(n) == Q(n, 1)

RNeg(x) == [x EXCEPT !.sgn = -x.sgn]

RAdd(x, y) ==
    IF x.sgn = 0 THEN y
    ELSE IF y.sgn = 0 THEN x
    ELSE LET a == NatMul(x.num, y.den)
             b == NatMul(y.num, x.den)
             d == IF x.den = y.den THEN x.den ELSE NatMul(x.den, y.den)
             a1 == IF x.den = y.den THEN x.num ELSE a
             b1 == IF x.den = y.den THEN y.num ELSE b
             c == NatCmp(a1, b1)
         IN  IF x.sgn = y.sgn THEN Mk(x.sgn, NatAdd(a1, b1), d)
             ELSE IF c = 0 THEN Mk(0, << >>, <<1>>)
             ELSE IF c > 0 THEN Mk(x.sgn, NatSub(a1, b1), d)
             ELSE Mk(y.sgn, NatSub(b1, a1), d)

RSub(x, y) == RAdd(x, RNeg(y))

RMul(x, y) == Mk(x.sgn * y.sgn, NatMul(x.num, y.num), NatMul(x.den, y.den))

\* x / y for y # 0
RDiv(x, y) == Mk(x.sgn * y.sgn, NatMul(x.num, y.den), NatMul(x.den, y.num))

\* -1, 0, 1 as x < y, x = y, x > y
RCmp(x, y) ==
    IF x.sgn # y.sgn THEN (IF x.sgn < y.sgn THEN -1 ELSE 1)
    ELSE IF x.sgn = 0 THEN 0
    ELSE x.sgn * NatCmp(NatMul(x.num, y.den), NatMul(y.num, x.den))

REq(x, y) == RCmp(x, y) = 0
RLt(x, y) == RCmp(x, y) < 0
RLe(x, y) == RCmp(x, y) <= 0

\* Python's max(a, b) and min(a, b): the first argument unless the second beats it
PyMax(a, b) == IF RLt(a, b) THEN b ELSE a
PyMin(a, b) == IF RLt(b, a) THEN b ELSE a

(***************************************************************************)
(* State.  The function keeps none: it reads its arguments and returns a   *)
(* fresh record.  The state is that of its callers.                        *)
(***************************************************************************)
VARIABLES
    args,       \* a direct call: its twelve arguments
    pc,         \* "ready": about to call, "returned", "raised"; "off"
    ret,        \* what the call returned or raised; NoValue before the call
    prev,       \* arguments and outcome of the call before this one, or NoValue
    calls,      \* the number of direct calls started
    widgets,    \* the script: the values of its sliders and checkboxes
    phase,      \* the script: "main", "sweep", "seasonal", "done"; "off"
    idx,        \* the script: index of the next sweep point or seasonal point
    result,     \* the script: its global result, the main call's record
    log,        \* every call the script made so far: <<[args, ret], ...>>
    runs        \* the number of runs of the script started

callVars == <<args, pc, ret, prev, calls>>
scriptVars == <<widgets, phase, idx, result, log, runs>>
vars == <<args, pc, ret, prev, calls, widgets, phase, idx, result, log, runs>>

(***************************************************************************)
(* calculate_realistic_cop, src/heat_pump.py lines 10-89.                  *)
(***************************************************************************)
\* a slip: 273 for 273.15
KelvinOffsetRounded == Z(273)

\* the offset between degrees Celsius and Kelvin (273.15)
KelvinOffset == Q(27315, 100)

\* fan_pump_power_kW = 0.150
fan_pump_power_kW == Q(150, 1000)

\* the clamp of the load factor: 0.15 and 1.1
MinLoadFactor == Q(15, 100)
MaxLoadFactor == Q(11, 10)

\* raised by Python's / when the divisor is zero; the call returns nothing
ZeroDivisionError == [raised |-> "ZeroDivisionError"]

\* 1. convert to Kelvin
T_outside_K(a) == RAdd(a.T_outside_C, KelvinOffset)
T_water_K(a) == RAdd(a.T_water_C, KelvinOffset)

\* a slip: the source delta added to the evaporator side, not subtracted
T_evap_K_Added(a) ==
    IF a.include_hex_penalty THEN RAdd(T_outside_K(a), a.delta_T_source)
    ELSE T_outside_K(a)

\* 2. heat exchanger penalty
T_evap_K(a) ==
    IF a.include_hex_penalty THEN RSub(T_outside_K(a), a.delta_T_source)
    ELSE T_outside_K(a)

T_cond_K(a) ==
    IF a.include_hex_penalty THEN RAdd(T_water_K(a), a.delta_T_sink)
    ELSE T_water_K(a)

\* 3. carnot_cop = T_cond_K / (T_cond_K - T_evap_K), for a lift that is not zero
CarnotCop(cond, evap) == RDiv(cond, RSub(cond, evap))

\* a slip: the wider band is tested before the narrower one
DefrostPenaltySwapped(a) ==
    IF ~a.include_defrost THEN Z(1)
    ELSE IF /\ RLe(Z(-5), a.T_outside_C) /\ RLe(a.T_outside_C, Z(5))
            /\ RLt(Z(70), a.humidity)
         THEN Q(90, 100)
    ELSE IF /\ RLe(Z(-2), a.T_outside_C) /\ RLe(a.T_outside_C, Z(3))
            /\ RLt(Z(60), a.humidity)
         THEN LET humidity_factor == RDiv(RSub(a.humidity, Z(60)), Z(40))
              IN  RSub(Q(88, 100), RMul(Q(5, 100), humidity_factor))
    ELSE Z(1)

\* a slip: defrost_penalty is not reset to 1.0 at the start of a call (a
\* module-level name), so outside the bands the last call's value is kept
DefrostPenaltyKept(a) ==
    IF a.include_defrost
       /\ RLe(Z(-2), a.T_outside_C) /\ RLe(a.T_outside_C, Z(3))
       /\ RLt(Z(60), a.humidity)
    THEN LET humidity_factor == RDiv(RSub(a.humidity, Z(60)), Z(40))
         IN  RSub(Q(88, 100), RMul(Q(5, 100), humidity_factor))
    ELSE IF a.include_defrost
            /\ RLe(Z(-5), a.T_outside_C) /\ RLe(a.T_outside_C, Z(5))
            /\ RLt(Z(70), a.humidity)
    THEN Q(90, 100)
    ELSE IF log # << >> /\ log[Len(log)].ret # ZeroDivisionError
    THEN log[Len(log)].ret.defrost_penalty
    ELSE Z(1)

\* 5. defrost penalty
DefrostPenalty(a) ==
    IF ~a.include_defrost THEN Z(1)
    ELSE IF /\ RLe(Z(-2), a.T_outside_C) /\ RLe(a.T_outside_C, Z(3))
            /\ RLt(Z(60), a.humidity)
         THEN LET humidity_factor == RDiv(RSub(a.humidity, Z(60)), Z(40))
              IN  RSub(Q(88, 100), RMul(Q(5, 100), humidity_factor))
    ELSE IF /\ RLe(Z(-5), a.T_outside_C) /\ RLe(a.T_outside_C, Z(5))
            /\ RLt(Z(70), a.humidity)
         THEN Q(90, 100)
    ELSE Z(1)

\* a slip: the lower clamp is missing
ClampLoadFactorNoFloor(x) == PyMin(MaxLoadFactor, x)

\* 6. load_factor = max(0.15, min(1.1, load_factor))
ClampLoadFactor(x) == PyMax(MinLoadFactor, PyMin(MaxLoadFactor, x))

\* a slip: the sign of the quadratic term
InverterCurveSignSlip(x) ==
    RAdd(RAdd(RMul(Q(8, 10), RMul(x, x)), RMul(Q(8, 10), x)), Q(8, 10))

\* (-0.8 * (load_factor**2)) + (0.8 * load_factor) + 0.8
InverterCurve(x) ==
    RAdd(RAdd(RMul(Q(-8, 10), RMul(x, x)), RMul(Q(8, 10), x)), Q(8, 10))

\* 7. parasitic loads: real_cop from the corrected raw_cop, raw_cop # 0 and
\* total_power_input # 0
total_power_input(heat, raw) == RAdd(RDiv(heat, raw), fan_pump_power_kW)

RealCop(heat, raw) == RDiv(heat, total_power_input(heat, raw))

\* a slip: the guard on the heat load is missing
TakesParasiticsUnguarded(a) == a.include_parasitics

\* whether the parasitic branch is taken (line 71)
TakesParasitics(a) ==
    a.include_parasitics /\ RLt(Z(0), a.current_heat_load_kW)

calculate_realistic_cop(a) ==
    LET evap == T_evap_K(a)
        cond == T_cond_K(a)
    IN
    IF REq(cond, evap) THEN ZeroDivisionError
    ELSE IF a.include_part_load /\ a.max_capacity_kW.sgn = 0
    THEN ZeroDivisionError
    ELSE
    LET carnot_cop == CarnotCop(cond, evap)
        raw1 == RMul(carnot_cop, RDiv(a.system_efficiency, Z(100)))
        defrost_penalty == DefrostPenalty(a)
        raw2 == RMul(raw1, defrost_penalty)
        load_factor ==
            ClampLoadFactor(RDiv(a.current_heat_load_kW, a.max_capacity_kW))
        inverter_correction ==
            IF a.include_part_load THEN InverterCurve(load_factor) ELSE Z(1)
        raw_cop == RMul(raw2, inverter_correction)
    IN
    IF TakesParasitics(a)
       /\ (raw_cop.sgn = 0
           \/ total_power_input(a.current_heat_load_kW, raw_cop).sgn = 0)
    THEN ZeroDivisionError
    ELSE
    [cop |-> IF TakesParasitics(a)
             THEN RealCop(a.current_heat_load_kW, raw_cop)
             ELSE raw_cop,
     carnot_cop |-> carnot_cop,
     raw_cop |-> raw_cop,
     defrost_penalty |-> defrost_penalty,
     inverter_correction |->
         IF a.include_part_load THEN inverter_correction ELSE Z(1),
     load_factor |->
         IF a.include_part_load
         THEN RDiv(a.current_heat_load_kW, a.max_capacity_kW)
         ELSE Z(1),
     T_evap |-> RSub(evap, KelvinOffset),
     T_cond |-> RSub(cond, KelvinOffset)]

(***************************************************************************)
(* The calls.  A caller picks the twelve arguments, calls the function and *)
(* reads the returned record; it may then flip the heat-exchanger checkbox *)
(* and call again with every other argument unchanged.                     *)
(***************************************************************************)
NoValue == [none |-> TRUE]

\* the most calls one caller makes
MaxCalls == 2

OutdoorTemps == {Z(t) : t \in {-6, -5, -2, 3, 4, 5, 10, 45, 56}}
WaterTemps == {Z(45)}
HeatLoads == {Z(k) : k \in {-1, 0, 2, 6, 7, 14, 16}} \cup {Q(21, 2)}
Humidities == {Z(h) : h \in {60, 65, 70, 75}}
Efficiencies == {Z(e) : e \in {0, 50, 100}}
SourceDeltas == {Z(0), Z(7)}
SinkDeltas == {Z(4)}
Capacities == {Z(14)}

Inputs ==
    [T_outside_C : OutdoorTemps, T_water_C : WaterTemps,
     current_heat_load_kW : HeatLoads, humidity : Humidities,
     include_defrost : BOOLEAN, include_parasitics : BOOLEAN,
     system_efficiency : Efficiencies, include_hex_penalty : BOOLEAN,
     include_part_load : BOOLEAN, delta_T_source : SourceDeltas,
     delta_T_sink : SinkDeltas, max_capacity_kW : Capacities]

\* the script is not running
ScriptOff ==
    /\ widgets = NoValue
    /\ phase = "off"
    /\ idx = 0
    /\ result = NoValue
    /\ log = << >>
    /\ runs = 0

Init ==
    /\ args \in Inputs
    /\ pc = "ready"
    /\ ret = NoValue
    /\ prev = NoValue
    /\ calls = 1
    /\ ScriptOff

\* the call of calculate_realistic_cop with the arguments args
Call ==
    /\ pc = "ready"
    /\ LET r == calculate_realistic_cop(args)
       IN  /\ ret' = r
           /\ pc' = IF r = ZeroDivisionError THEN "raised" ELSE "returned"
    /\ UNCHANGED <<args, prev, calls>>
    /\ UNCHANGED scriptVars

\* the caller flips include_hex_penalty and calls again
ToggleHex ==
    /\ pc # "ready"
    /\ calls < MaxCalls
    /\ prev' = [args |-> args, ret |-> ret]
    /\ args' = [args EXCEPT !.include_hex_penalty = ~@]
    /\ pc' = "ready"
    /\ ret' = NoValue
    /\ calls' = calls + 1
    /\ UNCHANGED scriptVars

Next == Call \/ ToggleHex

Spec == Init /\ [][Next]_vars

(***************************************************************************)
(* The script, src/heat_pump.py lines 92-278.  Every run reads the         *)
(* widgets, makes the main call, the calls of the temperature sweep and    *)
(* the four seasonal calls; a change of a widget (or a manual rerun) runs  *)
(* it again.  Only the calls are modelled, not what is drawn.              *)
(***************************************************************************)
\* the points of the sweep (np.linspace(-15, 15, 100) in the script)
SweepPoints == 4

\* the most runs of the script in one session
MaxRuns == 2

\* np.linspace(-15, 15, SweepPoints)[k - 1]
outdoor_range(k) ==
    RAdd(Z(-15), RMul(Z(k - 1), RDiv(Z(30), Z(SweepPoints - 1))))

\* temps = [-5, 0, 7, 12]
temps == <<Z(-5), Z(0), Z(7), Z(12)>>

\* the widgets' defaults
DefaultWidgets ==
    [T_outside_C |-> Z(5), T_water_C |-> Z(45),
     current_heat_load_kW |-> Z(6), humidity |-> Z(70),
     include_defrost |-> TRUE, include_parasitics |-> TRUE,
     system_efficiency |-> Z(50), include_hex_penalty |-> TRUE,
     include_part_load |-> TRUE, delta_T_source |-> Z(7),
     delta_T_sink |-> Z(4), max_capacity_kW |-> Z(14)]

\* positions of the outdoor temperature slider and of the humidity slider
\* that the model tries (the sliders run from -15 to 15 and from 30 to 90)
OutdoorSlider == {Z(-5), Z(0), Z(5)}
HumiditySlider == {Z(65), Z(75)}

InitScript ==
    /\ \E t \in OutdoorSlider, h \in HumiditySlider :
           widgets = [DefaultWidgets EXCEPT !.T_outside_C = t, !.humidity = h]
    /\ phase = "main"
    /\ idx = 0
    /\ result = NoValue
    /\ log = << >>
    /\ runs = 1
    /\ args = NoValue /\ pc = "off" /\ ret = NoValue /\ prev = NoValue
    /\ calls = 0

\* one call of the function by the script, recorded
Called(a) == Append(log, [args |-> a, ret |-> calculate_realistic_cop(a)])

\* lines 145-158: result = calculate_realistic_cop(outdoor_temp, ...); an
\* exception ends the run
MainCall ==
    /\ phase = "main"
    /\ log' = Called(widgets)
    /\ result' = calculate_realistic_cop(widgets)
    /\ IF result' = ZeroDivisionError
       THEN phase' = "done" /\ idx' = 0
       ELSE phase' = "sweep" /\ idx' = 1
    /\ UNCHANGED <<widgets, runs>>
    /\ UNCHANGED callVars

\* lines 221-236: one iteration of the loop over outdoor_range.  The sweep
\* passes a numpy float, for which a zero divisor yields inf or nan and not
\* an exception; with the widgets in their ranges (water >= 35 C, outdoor
\* <= 15 C, efficiency >= 40, heat load >= 1) no divisor is zero.
SweepCall ==
    /\ phase = "sweep"
    /\ log' = Called([widgets EXCEPT !.T_outside_C = outdoor_range(idx)])
    /\ IF idx < SweepPoints
       THEN idx' = idx + 1 /\ phase' = phase
       ELSE idx' = 1 /\ phase' = "seasonal"
    /\ UNCHANGED <<widgets, result, runs>>
    /\ UNCHANGED callVars

\* lines 271-278: one iteration of the loop over temps
SeasonalCall ==
    /\ phase = "seasonal"
    /\ log' = Called([widgets EXCEPT !.T_outside_C = temps[idx]])
    /\ IF idx < Len(temps)
       THEN idx' = idx + 1 /\ phase' = phase
       ELSE idx' = 0 /\ phase' = "done"
    /\ UNCHANGED <<widgets, result, runs>>
    /\ UNCHANGED callVars

\* the script starts again from its first line with the widgets w
Restart(w) ==
    /\ phase = "done"
    /\ runs < MaxRuns
    /\ widgets' = w
    /\ phase' = "main"
    /\ idx' = 0
    /\ runs' = runs + 1
    /\ UNCHANGED <<result, log>>
    /\ UNCHANGED callVars

\* a rerun with no widget changed
Rerun == Restart(widgets)

\* line 142: the outdoor temperature slider is moved
MoveOutdoorSlider ==
    \E t \in OutdoorSlider \ {widgets.T_outside_C} :
        Restart([widgets EXCEPT !.T_outside_C = t])

\* lines 130-136: the defrost checkbox is flipped; without it humidity is 0,
\* with it the humidity slider is shown again at its default 70
ToggleDefrost ==
    Restart([widgets EXCEPT !.include_defrost = ~@,
                            !.humidity = IF widgets.include_defrost
                                         THEN Z(0) ELSE Z(70)])

NextScript ==
    \/ MainCall
    \/ SweepCall
    \/ SeasonalCall
    \/ Rerun
    \/ MoveOutdoorSlider
    \/ ToggleDefrost

SpecScript == InitScript /\ [][NextScript]_vars

(***************************************************************************)
(* Properties of a call.                                                   *)
(***************************************************************************)
Returned == pc = "returned"
Finished == pc # "ready"

\* |x - y| <= 0.001
Near(x, y) == RLe(RSub(x, y), Q(1, 1000)) /\ RLe(RSub(y, x), Q(1, 1000))

Efficiency == RDiv(args.system_efficiency, Z(100))

\* the constraints of the data model on the numeric arguments
ValidArgs ==
    /\ RLt(Z(0), args.current_heat_load_kW)
    /\ RLt(Z(0), args.max_capacity_kW)
    /\ RLe(Z(0), args.delta_T_source)
    /\ RLe(Z(0), args.delta_T_sink)
    /\ RLe(Z(0), args.humidity) /\ RLe(args.humidity, Z(100))
    /\ RLe(Z(0), args.system_efficiency)
    /\ RLe(args.system_efficiency, Z(100))

\* C1: a call whose condenser temperature is at or below its evaporator
\* temperature does not crash: it returns a record whose raw_cop is the
\* carnot_cop times the efficiency and the two correction factors, unclamped.
C1_DegenerateCarnotReturns ==
    (Finished /\ RLe(T_cond_K(args), T_evap_K(args)))
        => /\ Returned
           /\ REq(ret.raw_cop,
                  RMul(RMul(RMul(ret.carnot_cop, Efficiency),
                            ret.defrost_penalty), ret.inverter_correction))
           /\ (~TakesParasitics(args) => REq(ret.cop, ret.raw_cop))

\* C2: a call with valid arguments (system_efficiency anywhere in 0..100, 0
\* included) and condenser above evaporator returns a record, whatever the
\* four flags: it never raises.
C2_ValidArgsNeverRaise ==
    (Finished /\ ValidArgs /\ RLt(T_evap_K(args), T_cond_K(args)))
        => Returned

ScenarioArgs ==
    [T_outside_C |-> Z(5), T_water_C |-> Z(45),
     current_heat_load_kW |-> Z(6), humidity |-> Z(70),
     include_defrost |-> TRUE, include_parasitics |-> TRUE,
     system_efficiency |-> Z(50), include_hex_penalty |-> TRUE,
     include_part_load |-> TRUE, delta_T_source |-> Z(7),
     delta_T_sink |-> Z(4), max_capacity_kW |-> Z(14)]

ScenarioDone == Finished /\ args = ScenarioArgs

\* C3 as stated: the end-to-end scenario returns T_evap = -2, T_cond = 49,
\* defrost_penalty = 1, inverter_correction within 0.001 of 0.949, raw_cop
\* within 0.001 of 2.998 and cop within 0.001 of 2.789.
C3_ScenarioAsStated ==
    ScenarioDone
        => /\ Returned
           /\ REq(ret.T_evap, Z(-2)) /\ REq(ret.T_cond, Z(49))
           /\ REq(ret.defrost_penalty, Z(1))
           /\ Near(ret.inverter_correction, Q(949, 1000))
           /\ Near(ret.raw_cop, Q(2998, 1000))
           /\ Near(ret.cop, Q(2789, 1000))

\* C3 amended: the end-to-end scenario returns T_evap = -2, T_cond = 49,
\* defrost_penalty = 1, carnot_cop within 0.001 of 6.317, inverter_correction
\* within 0.001 of 0.996, raw_cop within 0.001 of 3.145 and cop within 0.001
\* of 2.916.
C3_Scenario ==
    ScenarioDone
        => /\ Returned
           /\ REq(ret.T_evap, Z(-2)) /\ REq(ret.T_cond, Z(49))
           /\ REq(ret.defrost_penalty, Z(1))
           /\ Near(ret.carnot_cop, Q(6317, 1000))
           /\ Near(ret.inverter_correction, Q(996, 1000))
           /\ Near(ret.raw_cop, Q(3145, 1000))
           /\ Near(ret.cop, Q(2916, 1000))

C3_Witness == ScenarioDone /\ Returned

\* the load factor as the claims state it: the ratio clamped to [0.15, 1.1]
StatedLoadFactor ==
    LET x == RDiv(args.current_heat_load_kW, args.max_capacity_kW)
    IN  IF RLt(x, Q(15, 100)) THEN Q(15, 100)
        ELSE IF RLt(Q(11, 10), x) THEN Q(11, 10)
        ELSE x

\* C4: with include_part_load the returned load_factor is the ratio of heat
\* load to capacity clamped to [0.15, 1.1], the value the inverter curve got.
C4_ReturnedLoadFactorClamped ==
    (Returned /\ args.include_part_load)
        => /\ REq(ret.load_factor, StatedLoadFactor)
           /\ RLe(Q(15, 100), ret.load_factor)
           /\ RLe(ret.load_factor, Q(11, 10))

\* C5 as stated: raw_cop <= carnot_cop * (system_efficiency / 100) in every
\* returned record, a negative carnot_cop included.
C5_RawCopBoundAlways ==
    Returned => RLe(ret.raw_cop, RMul(ret.carnot_cop, Efficiency))

\* C5 amended: with system_efficiency >= 0, raw_cop <= carnot_cop *
\* (system_efficiency / 100) in every returned record whose carnot_cop is
\* not negative; when carnot_cop is negative the inequality is reversed.
C5_RawCopBound ==
    Returned
        => IF ret.carnot_cop.sgn >= 0
           THEN RLe(ret.raw_cop, RMul(ret.carnot_cop, Efficiency))
           ELSE RLe(RMul(ret.carnot_cop, Efficiency), ret.raw_cop)

C5_Witness ==
    /\ Returned
    /\ ret.carnot_cop.sgn > 0
    /\ RLt(ret.raw_cop, RMul(ret.carnot_cop, Efficiency))
    /\ RLt(ret.defrost_penalty, Z(1))
    /\ RLt(ret.inverter_correction, Z(1))

\* C6: with include_parasitics, a heat load > 0 and raw_cop > 0 the returned
\* cop is heat / (heat / raw_cop + 0.150) and is strictly below raw_cop;
\* without include_parasitics, or with a heat load <= 0, cop is raw_cop.
C6_Parasitics ==
    Returned
        => LET heat == args.current_heat_load_kW
           IN  /\ (args.include_parasitics /\ heat.sgn > 0
                        /\ ret.raw_cop.sgn > 0)
                   => /\ REq(ret.cop,
                             RDiv(heat, RAdd(RDiv(heat, ret.raw_cop),
                                             Q(150, 1000))))
                      /\ RLt(ret.cop, ret.raw_cop)
               /\ (~args.include_parasitics \/ heat.sgn <= 0)
                   => REq(ret.cop, ret.raw_cop)

C6_Witness ==
    /\ Returned
    /\ args.include_parasitics
    /\ args.current_heat_load_kW.sgn > 0
    /\ ret.raw_cop.sgn > 0
    /\ RLt(ret.cop, ret.raw_cop)

\* the defrost penalty as the claim states it
StatedDefrostPenalty ==
    LET t == args.T_outside_C
        h == args.humidity
    IN  IF ~args.include_defrost THEN Z(1)
        ELSE IF RCmp(t, Z(-2)) >= 0 /\ RCmp(t, Z(3)) <= 0 /\ RCmp(h, Z(60)) > 0
             THEN RSub(Q(88, 100),
                       RMul(Q(5, 100), RDiv(RSub(h, Z(60)), Z(40))))
        ELSE IF RCmp(t, Z(-5)) >= 0 /\ RCmp(t, Z(5)) <= 0 /\ RCmp(h, Z(70)) > 0
             THEN Q(90, 100)
        ELSE Z(1)

\* C7: the returned defrost_penalty follows the two bands, the first one
\* first, with inclusive temperature bounds and exclusive humidity
\* thresholds: 0.87375 at 3 C / 65 %, 0.90 at 4 C / 75 %, 1.0 at 10 C and
\* at 5 C / 70 %; it is 1.0 without include_defrost.
C7_DefrostBands ==
    Returned
        => LET t == args.T_outside_C
               h == args.humidity
               p == ret.defrost_penalty
           IN  /\ REq(p, StatedDefrostPenalty)
               /\ (args.include_defrost /\ t = Z(3) /\ h = Z(65))
                      => REq(p, Q(87375, 100000))
               /\ (args.include_defrost /\ t = Z(4) /\ h = Z(75))
                      => REq(p, Q(90, 100))
               /\ (t = Z(10)) => REq(p, Z(1))
               /\ (t = Z(5) /\ h = Z(70)) => REq(p, Z(1))
               /\ ~args.include_defrost => REq(p, Z(1))

\* both bands apply and the first one decides
C7_Witness ==
    /\ Returned
    /\ args.include_defrost
    /\ args.T_outside_C = Z(3) /\ args.humidity = Z(75)
    /\ REq(ret.defrost_penalty, Q(86125, 100000))

HexPair ==
    /\ Returned
    /\ prev # NoValue
    /\ prev.ret # ZeroDivisionError
    /\ prev.args = [args EXCEPT !.include_hex_penalty = ~@]

\* C9: of two calls that differ only in include_hex_penalty, with the deltas
\* >= 0 and the condenser above the evaporator in both, the one without the
\* penalty returns the greater or equal carnot_cop; with the penalty T_evap
\* is T_outside_C - delta_T_source and T_cond is T_water_C + delta_T_sink,
\* without it they are T_outside_C and T_water_C.
C9_HexPenaltyLowersCarnot ==
    HexPair
        => LET on == IF args.include_hex_penalty THEN ret ELSE prev.ret
               off == IF args.include_hex_penalty THEN prev.ret ELSE ret
           IN  /\ REq(on.T_evap, RSub(args.T_outside_C, args.delta_T_source))
               /\ REq(on.T_cond, RAdd(args.T_water_C, args.delta_T_sink))
               /\ REq(off.T_evap, args.T_outside_C)
               /\ REq(off.T_cond, args.T_water_C)
               /\ (/\ RLe(Z(0), args.delta_T_source)
                   /\ RLe(Z(0), args.delta_T_sink)
                   /\ RLt(on.T_evap, on.T_cond)
                   /\ RLt(off.T_evap, off.T_cond))
                  => RLe(on.carnot_cop, off.carnot_cop)

C9_Witness ==
    /\ HexPair
    /\ args.delta_T_source.sgn > 0
    /\ RLt(ret.T_evap, ret.T_cond)
    /\ RLt(prev.ret.T_evap, prev.ret.T_cond)
    /\ RLt(ret.carnot_cop, prev.ret.carnot_cop)

(***************************************************************************)
(* Properties of the calls of a session of the script.                     *)
(***************************************************************************)
NumericArgs ==
    {"T_outside_C", "T_water_C", "current_heat_load_kW", "humidity",
     "system_efficiency", "delta_T_source", "delta_T_sink", "max_capacity_kW"}

FlagArgs ==
    {"include_defrost", "include_parasitics", "include_hex_penalty",
     "include_part_load"}

\* the same twelve argument values
SameArgs(a, b) ==
    /\ \A f \in FlagArgs : a[f] = b[f]
    /\ \A f \in NumericArgs : REq(a[f], b[f])

\* the same outcome: both raised, or records equal in all eight fields
SameRet(r, q) ==
    IF r = ZeroDivisionError \/ q = ZeroDivisionError THEN r = q
    ELSE \A f \in DOMAIN r : REq(r[f], q[f])

\* the latest call of the log agrees with every earlier call that had the
\* same arguments
SameArgsSameResult ==
    \A i \in 1..Len(log) :
        SameArgs(log[i].args, log[Len(log)].args)
            => SameRet(log[i].ret, log[Len(log)].ret)

\* a call leaves alone what later calls read: the widgets and, in the loops,
\* the main call's result
CallsChangeNoInput ==
    /\ (phase \in {"main", "sweep", "seasonal"}) => (widgets' = widgets)
    /\ (phase \in {"sweep", "seasonal"}) => (result' = result)

====
